---- MODULE Spec2Model ----
(***************************************************************************)
(* Model of the studenthub server (express + mongoose): the record store   *)
(* of the five submission collections, the student submit-document         *)
(* endpoint, the admin accept / reject review endpoints, the two JWT       *)
(* middlewares, and the four server-sent-event stream endpoints with their *)
(* poll and heartbeat timers.                                              *)
(***************************************************************************)
EXTENDS Integers, Sequences, FiniteSets, TLC

VARIABLES store, resp, sess, uploads, hook, reviews, page

vars == <<store, resp, sess, uploads, hook, reviews, page>>

(* ------------------------------------------------------------------ *)
(* Bounds                                                              *)
(* ------------------------------------------------------------------ *)
MaxDocs == 2
MaxOut == 3
MaxEs == 3
MaxTimers == 2
MaxTicks == 2

(* ------------------------------------------------------------------ *)
(* Values                                                              *)
(* ------------------------------------------------------------------ *)
Missing == "<missing>"
NoDesc == "<unset>"
NoTok == "<none>"

Students == {"A", "B"}

\* the five mongoose models that hold submissions, and the others
SubmissionModels == {"Activities", "Extracurriculam", "Interned", "Company", "Skill"}
ModelNames == SubmissionModels \cup {"Student", "Faculty", "GPA"}

\* a document location: "/uploads/<file>-<name>" (form rel), the same behind
\* "http://localhost:<port>" (form abs), behind "/http://localhost:<port>"
\* (form slashabs), or none; file is multer's unique suffix, name the
\* original name of the uploaded file
PlainName == "cv.pdf"
OriginalNames == {PlainName, "my cv.pdf", "c# notes.pdf", "100%.pdf"}

NoUrl == [form |-> "none", file |-> 0, name |-> ""]
StoredAs(n, name) == [form |-> "rel", file |-> n, name |-> name]
StoredUrl(n) == StoredAs(n, PlainName)
FullUrl(u) == IF u = NoUrl THEN NoUrl ELSE [form |-> "abs", file |-> u.file, name |-> u.name]

(* ------------------------------------------------------------------ *)
(* JWT middlewares                                                     *)
(* ------------------------------------------------------------------ *)
Tokens == {"bad", "stuA", "stuB", "adm"}

\* header first, then the token query parameter
TokenOf(cred) == IF cred.header # NoTok THEN cred.header ELSE cred.query

\* jwt.verify: the decoded payload, or "throws"
Decode(tok) ==
    CASE tok = "stuA" -> [ok |-> TRUE, role |-> "none", sid |-> "A"]
      [] tok = "stuB" -> [ok |-> TRUE, role |-> "none", sid |-> "B"]
      [] tok = "adm" -> [ok |-> TRUE, role |-> "admin", sid |-> Missing]
      [] OTHER -> [ok |-> FALSE, role |-> "none", sid |-> Missing]

\* 0 stands for next()
authenticateStudent(cred) ==
    LET token == TokenOf(cred)
        decoded == Decode(token)
    IN  IF token = NoTok THEN [code |-> 401, sid |-> Missing]
        ELSE IF ~decoded.ok THEN [code |-> 401, sid |-> Missing]
        ELSE IF decoded.sid = Missing THEN [code |-> 401, sid |-> Missing]
        ELSE [code |-> 0, sid |-> decoded.sid]

authenticateAdmin(cred) ==
    LET token == TokenOf(cred)
        decoded == Decode(token)
    IN  IF token = NoTok THEN 401
        ELSE IF ~decoded.ok THEN 401
        ELSE IF decoded.role # "admin" THEN 403
        ELSE 0

(* ------------------------------------------------------------------ *)
(* Review endpoints: helpers                                           *)
(* ------------------------------------------------------------------ *)
\* JavaScript truthiness of a body field that is a string or absent
Truthy(v) == v # Missing /\ v # ""

\* String(value).trim().toLowerCase()
LowerTrim(t) ==
    CASE t = " Skills " -> "skills"
      [] t = "Curriculam" -> "curriculam"
      [] t = " GPA " -> "gpa"
      [] t = "Faculty" -> "faculty"
      [] OTHER -> t

\* the file name within new URL(str, base).pathname: the parser ends the path
\* at '#' and percent-encodes a space
UrlPathname(name) ==
    CASE name = "c# notes.pdf" -> "c"
      [] name = "my cv.pdf" -> "my%20cv.pdf"
      [] OTHER -> name

\* decodeURIComponent throws on a '%' that starts no escape
Decodable(s) == s # "100%.pdf"

decodeURIComponent(s) ==
    CASE s = "my%20cv.pdf" -> "my cv.pdf"
      [] OTHER -> s

\* normalizeDocUrl and the '/' the handler puts in front of a result that lacks
\* one: when both decodings throw, the string comes back as it was sent
normalizeDocUrl(u) ==
    IF u = NoUrl THEN NoUrl
    ELSE IF Decodable(UrlPathname(u.name))
    THEN [form |-> "rel", file |-> u.file, name |-> decodeURIComponent(UrlPathname(u.name))]
    ELSE IF Decodable(u.name)
    THEN [form |-> u.form, file |-> u.file, name |-> decodeURIComponent(u.name)]
    ELSE [form |-> IF u.form = "abs" THEN "slashabs" ELSE u.form,
          file |-> u.file, name |-> u.name]

\* a key that the object literal inherits yields a value that is no model
modelByType(type) ==
    CASE type \in {"skill", "skills"} -> "Skill"
      [] type = "constructor" -> "Object"
      [] type \in {"curricular", "curriculam", "curriculum", "activities"} -> "Activities"
      [] type \in {"intern", "inters", "interned", "internship"} -> "Interned"
      [] type \in {"placed", "company", "placement"} -> "Company"
      [] OTHER -> "null"

\* name.toLowerCase() of a registered model name
LowerName(name) ==
    CASE name = "Student" -> "student"
      [] name = "Faculty" -> "faculty"
      [] name = "GPA" -> "gpa"
      [] name = "Activities" -> "activities"
      [] name = "Extracurriculam" -> "extracurriculam"
      [] name = "Interned" -> "interned"
      [] name = "Company" -> "company"
      [] name = "Skill" -> "skill"

resolveModel(type) ==
    IF modelByType(type) # "null" THEN modelByType(type)
    ELSE IF \E name \in ModelNames : LowerName(name) = type
         THEN CHOOSE name \in ModelNames : LowerName(name) = type
         ELSE "null"

\* Model.schema.path(field) is defined; the fields of each model are those the
\* handlers store and query and the client's document interfaces declare
SchemaHasPath(model, field) ==
    \/ model \in SubmissionModels /\ field \in {"sid", "url", "status", "description"}
    \/ model = "GPA" /\ field \in {"sid", "url"}
    \/ model = "Student" /\ field = "sid"

\* FindOne with the owner left out of the filter
FindOne_UrlOnly(st, model, sid, url) ==
    LET hits == {i \in 1..Len(st) : st[i].model = model /\ st[i].url = url}
    IN  IF hits = {} THEN 0 ELSE CHOOSE i \in hits : \A j \in hits : i <= j

\* index of the first document matching {sid, url} in the collection, 0 if none
FindOne(st, model, sid, url) ==
    LET hits == {i \in 1..Len(st) : st[i].model = model /\ st[i].sid = sid /\ st[i].url = url}
    IN  IF hits = {} THEN 0 ELSE CHOOSE i \in hits : \A j \in hits : i <= j

(* ------------------------------------------------------------------ *)
(* Initial state                                                       *)
(* ------------------------------------------------------------------ *)
\* no document found
NoDoc == [status |-> "none", description |-> NoDesc]

\* the review fields of a document
Review(doc) == [status |-> doc.status, description |-> doc.description]

\* the last HTTP response; for a review that matched, the document as it was found
NoResp == [op |-> "none", code |-> 0, found |-> NoDoc]

\* no connection: the fields of a stream handler's closure, all unset
NoSession ==
    [pc |-> "none", kind |-> "none", cred |-> [header |-> NoTok, query |-> NoTok],
     sid |-> Missing, code |-> 0, out |-> <<>>, snap |-> <<>>,
     pollInterval |-> FALSE, heartbeatInterval |-> FALSE, remoteClosed |-> FALSE,
     polling |-> FALSE, pollError |-> FALSE,
     ticks |-> 0, queries |-> {}, order |-> <<>>, wire |-> <<>>]

\* setError(null)
NoError == "<null>"

\* a JavaScript value that is a list of documents, and undefined
List(items) == [defined |-> TRUE, items |-> items]
Undefined == [defined |-> FALSE, items |-> <<>>]

\* a stream hook before its effect has run: the useState initial values;
\* mounted and enabled record the component's life and the hook's argument
NoHook ==
    [kind |-> "none", collection |-> List(<<>>), loading |-> TRUE, error |-> NoError,
     isConnected |-> FALSE, eventSource |-> "none", lastEvent |-> "none",
     mounted |-> FALSE, enabled |-> FALSE]

\* the requests page before it is mounted: the useState and useRef initial
\* values; es holds the readyState of every EventSource the page created, in
\* creation order, ref the index eventSourceRef.current refers to (0: null),
\* timers the pending reconnect timeouts whose ref is this one, stale those
\* whose ref was set to null by a cleanup
NoPage ==
    [mounted |-> FALSE, es |-> <<>>, ref |-> 0, timers |-> 0, stale |-> 0,
     isLiveConnected |-> FALSE, loading |-> TRUE, documents |-> List(<<>>),
     totalCount |-> 0, lastEvent |-> "none"]

\* two review requests can be in the server at once
Handlers == {1, 2}

\* a review handler that holds no request; raced records whether the request
\* awaited its update while the other handler awaited one too
NoReview ==
    [pc |-> "idle", op |-> "none", sid |-> Missing, docurl |-> NoUrl,
     documentype |-> Missing, description |-> Missing, dbOk |-> TRUE,
     cred |-> [header |-> NoTok, query |-> NoTok], code |-> 0, raced |-> FALSE]

Init ==
    /\ store = <<>>
    /\ resp = NoResp
    /\ sess = NoSession
    /\ uploads = {}
    /\ hook = NoHook
    /\ reviews = [h \in Handlers |-> NoReview]
    /\ page = NoPage

(* ------------------------------------------------------------------ *)
(* POST /api/student/submit-document                                   *)
(* ------------------------------------------------------------------ *)
schemaMap(key) ==
    CASE key = "curriculam" -> "Activities"
      [] key = "extracurriculam" -> "Extracurriculam"
      [] key = "internship" -> "Interned"
      [] key = "placement" -> "Company"
      [] key = "skill" -> "Skill"
      [] OTHER -> "null"

\* the switch over key: TRUE when the variant's required fields pass
SubmitFieldsOk(req) ==
    CASE req.key \in {"curriculam", "extracurriculam"} ->
            req.fields /\ Truthy(req.description)
      [] req.key \in {"internship", "placement"} ->
            req.fields /\ req.companytype \in {"government", "private"} /\ req.hasFile
      [] req.key = "skill" -> Truthy(req.skillname) /\ req.hasFile
      [] OTHER -> FALSE

\* documentToSave that leaves the skill's name out
documentToSave_NoSkillname(req, studentSid, n) ==
    [model |-> schemaMap(req.key),
     sid |-> studentSid,
     status |-> "pending",
     url |-> IF req.hasFile THEN StoredAs(n, req.originalname) ELSE NoUrl,
     description |-> IF req.key \in {"curriculam", "extracurriculam"}
                     THEN req.description ELSE NoDesc,
     skillname |-> Missing]

\* documentToSave that takes owner and status from the body when it has them
documentToSave_FromBody(req, studentSid, n) ==
    [model |-> schemaMap(req.key),
     sid |-> IF req.sid # Missing THEN req.sid ELSE studentSid,
     status |-> IF req.status # Missing THEN req.status ELSE "pending",
     url |-> IF req.hasFile THEN StoredAs(n, req.originalname) ELSE NoUrl,
     description |-> IF req.key \in {"curriculam", "extracurriculam"}
                     THEN req.description ELSE NoDesc,
     skillname |-> IF req.key = "skill" THEN req.skillname ELSE Missing]

\* documentToSave, as a stored document; n is the upload's fresh file name
documentToSave(req, studentSid, n) ==
    [model |-> schemaMap(req.key),
     sid |-> studentSid,
     status |-> "pending",
     url |-> IF req.hasFile THEN StoredAs(n, req.originalname) ELSE NoUrl,
     description |-> IF req.key \in {"curriculam", "extracurriculam"}
                     THEN req.description ELSE NoDesc,
     skillname |-> IF req.key = "skill" THEN req.skillname ELSE Missing]

SubmitCode(req) ==
    LET auth == authenticateStudent(req.cred)
    IN  IF auth.code # 0 THEN auth.code
        ELSE IF ~Truthy(req.key) THEN 400
        ELSE IF schemaMap(req.key) = "null" THEN 400
        ELSE IF ~SubmitFieldsOk(req) THEN 400
        ELSE IF ~req.dbOk THEN 500
        ELSE 201

\* multer's diskStorage: a file name no file of the uploads directory has
FreshFile(dir) == IF dir = {} THEN 1 ELSE 1 + (CHOOSE n \in dir : \A k \in dir : k <= n)

\* upload.single('pdfFile') runs once authenticateStudent has called next()
MulterStores(req) == authenticateStudent(req.cred).code = 0 /\ req.hasFile

\* the uploads directory after the request: the catch block unlinks the file,
\* the validation returns leave it
UploadsAfter(dir, req) ==
    IF MulterStores(req) /\ SubmitCode(req) # 500 THEN dir \cup {FreshFile(dir)} ELSE dir

SubmitDocument(req) ==
    LET code == SubmitCode(req)
    IN  /\ Len(store) < MaxDocs
        /\ Cardinality(uploads) <= MaxDocs
        /\ resp' = [op |-> "submit", code |-> code, found |-> NoDoc]
        /\ store' = IF code = 201
                    THEN Append(store,
                                documentToSave(req, authenticateStudent(req.cred).sid,
                                               FreshFile(uploads)))
                    ELSE store
        /\ uploads' = UploadsAfter(uploads, req)
        /\ UNCHANGED <<sess, hook, reviews, page>>

(* ------------------------------------------------------------------ *)
(* POST /api/skills/accept and POST /api/skills/reject                 *)
(* ------------------------------------------------------------------ *)
\* the document the review filter {sid, url} selects in the resolved model
ReviewTarget(st, req) ==
    FindOne(st, resolveModel(LowerTrim(req.documentype)), req.sid,
            normalizeDocUrl(req.docurl))

\* ReviewPrecheck without the checks of the status and description paths
ReviewPrecheck_NoStatusPath(req, needDescription) ==
    LET Model == resolveModel(LowerTrim(req.documentype))
    IN  IF authenticateAdmin(req.cred) # 0 THEN authenticateAdmin(req.cred)
        ELSE IF ~Truthy(req.sid) \/ req.docurl = NoUrl \/ ~Truthy(req.documentype) THEN 400
        ELSE IF needDescription /\ ~Truthy(req.description) THEN 400
        ELSE IF Model = "null" THEN 400
        ELSE IF ~SchemaHasPath(Model, "sid") THEN 400
        ELSE IF ~SchemaHasPath(Model, "url") THEN 400
        ELSE 0

\* response code up to and including the schema checks; 0 when they pass
ReviewPrecheck(req, needDescription) ==
    LET Model == resolveModel(LowerTrim(req.documentype))
    IN  IF authenticateAdmin(req.cred) # 0 THEN authenticateAdmin(req.cred)
        ELSE IF ~Truthy(req.sid) \/ req.docurl = NoUrl \/ ~Truthy(req.documentype) THEN 400
        ELSE IF needDescription /\ ~Truthy(req.description) THEN 400
        ELSE IF Model = "null" THEN 400
        ELSE IF ~SchemaHasPath(Model, "status") THEN 400
        ELSE IF needDescription /\ ~SchemaHasPath(Model, "description") THEN 400
        ELSE IF ~SchemaHasPath(Model, "sid") THEN 400
        ELSE IF ~SchemaHasPath(Model, "url") THEN 400
        ELSE 0

AcceptCode(st, req) ==
    IF ReviewPrecheck(req, FALSE) # 0 THEN ReviewPrecheck(req, FALSE)
    ELSE IF ~req.dbOk THEN 500
    ELSE IF ReviewTarget(st, req) = 0 THEN 404
    ELSE 200

RejectCode(st, req) ==
    IF ReviewPrecheck(req, TRUE) # 0 THEN ReviewPrecheck(req, TRUE)
    ELSE IF ~req.dbOk THEN 500
    ELSE IF ReviewTarget(st, req) = 0 THEN 404
    ELSE 200

\* AcceptUpdate that sets the status the student pages name
AcceptUpdate_Approved(doc) == [doc EXCEPT !.status = "approved", !.description = NoDesc]

\* AcceptUpdate without the $unset
AcceptUpdate_NoUnset(doc) == [doc EXCEPT !.status = "accepted"]

\* { $set: { status: 'accepted' }, $unset: { description: '' } }
AcceptUpdate(doc) == [doc EXCEPT !.status = "accepted", !.description = NoDesc]

\* RejectUpdate that keeps a description already stored
RejectUpdate_KeepFirst(doc, description) ==
    [doc EXCEPT !.status = "rejected",
                !.description = IF @ = NoDesc THEN description ELSE @]

\* { $set: { status: 'rejected', description: String(description) } }
\* RejectUpdate that sets the status and leaves the description alone
RejectUpdate_StatusOnly(doc, description) == [doc EXCEPT !.status = "rejected"]

RejectUpdate(doc, description) ==
    [doc EXCEPT !.status = "rejected", !.description = description]

AcceptDocument(req) ==
    LET code == AcceptCode(store, req)
        i == ReviewTarget(store, req)
    IN  /\ resp' = [op |-> "accept", code |-> code,
                    found |-> IF code = 200 THEN Review(store[i]) ELSE NoDoc]
        /\ store' = IF code = 200 THEN [store EXCEPT ![i] = AcceptUpdate(@)] ELSE store
        /\ UNCHANGED <<sess, uploads, hook, reviews, page>>

RejectDocument(req) ==
    LET code == RejectCode(store, req)
        i == ReviewTarget(store, req)
    IN  /\ resp' = [op |-> "reject", code |-> code,
                    found |-> IF code = 200 THEN Review(store[i]) ELSE NoDoc]
        /\ store' = IF code = 200
                    THEN [store EXCEPT ![i] = RejectUpdate(@, req.description)]
                    ELSE store
        /\ UNCHANGED <<sess, uploads, hook, reviews, page>>

\* the request a handler holds, as the body and credentials it arrived with
Held(r) ==
    [sid |-> r.sid, docurl |-> r.docurl, documentype |-> r.documentype,
     description |-> r.description, dbOk |-> r.dbOk, cred |-> r.cred]

\* a review handler runs from the request's arrival to its await of
\* findOneAndUpdate: the middleware and every check; a refusal is answered here
ReviewBegin(h, op, req) ==
    LET code == ReviewPrecheck(req, op = "reject")
        other == CHOOSE g \in Handlers : g # h
        race == code = 0 /\ reviews[other].pc = "awaiting"
    IN  /\ reviews[h].pc \in {"idle", "done"}
        /\ reviews' =
              [g \in Handlers |->
                 IF g = h
                 THEN [pc |-> IF code = 0 THEN "awaiting" ELSE "done", op |-> op,
                       sid |-> req.sid, docurl |-> req.docurl,
                       documentype |-> req.documentype, description |-> req.description,
                       dbOk |-> req.dbOk, cred |-> req.cred, code |-> code, raced |-> race]
                 ELSE [reviews[g] EXCEPT !.raced = @ \/ race]]
        /\ UNCHANGED <<store, resp, sess, uploads, hook, page>>

\* the awaited findOneAndUpdate is applied by the store in one step, and the
\* handler answers with its result
ReviewCommit(h) ==
    LET req == Held(reviews[h])
        i == ReviewTarget(store, req)
        code == IF ~req.dbOk THEN 500 ELSE IF i = 0 THEN 404 ELSE 200
    IN  /\ reviews[h].pc = "awaiting"
        /\ store' = IF code # 200 THEN store
                    ELSE IF reviews[h].op = "accept"
                    THEN [store EXCEPT ![i] = AcceptUpdate(@)]
                    ELSE [store EXCEPT ![i] = RejectUpdate(@, req.description)]
        /\ reviews' = [reviews EXCEPT ![h].pc = "done", ![h].code = code]
        /\ UNCHANGED <<resp, sess, uploads, hook, page>>

(* ------------------------------------------------------------------ *)
(* POST /api/academics                                                 *)
(* ------------------------------------------------------------------ *)
\* parseInt of a semester field
parseInt(sem) == CASE sem = "3" -> 3 [] sem = "9" -> 9

AcademicCode(req) ==
    IF authenticateAdmin(req.cred) # 0 THEN authenticateAdmin(req.cred)
    ELSE IF ~Truthy(req.sid) \/ ~Truthy(req.gpa) \/ ~Truthy(req.sem) THEN 400
    ELSE IF ~req.hasFile THEN 400
    ELSE IF parseInt(req.sem) < 1 \/ parseInt(req.sem) > 8 THEN 400
    ELSE IF req.sid \notin Students THEN 404
    ELSE IF ~req.dbOk THEN 500
    ELSE 201

\* the academic record as stored: it has neither status nor description; the
\* gpa and sem fields, which no review reads, are left out
academicRecord(req, n) ==
    [model |-> "GPA", sid |-> req.sid, status |-> Missing, url |-> StoredUrl(n),
     description |-> NoDesc, skillname |-> Missing]

\* upload.single('pdfFile') runs once authenticateAdmin has called next(); the
\* catch block unlinks the file, the other returns leave it
AcademicUpload(req) ==
    LET code == AcademicCode(req)
        stored == authenticateAdmin(req.cred) = 0 /\ req.hasFile /\ code # 500
    IN  /\ Len(store) < MaxDocs
        /\ Cardinality(uploads) <= MaxDocs
        /\ resp' = [op |-> "academics", code |-> code, found |-> NoDoc]
        /\ store' = IF code = 201 THEN Append(store, academicRecord(req, FreshFile(uploads)))
                    ELSE store
        /\ uploads' = IF stored THEN uploads \cup {FreshFile(uploads)} ELSE uploads
        /\ UNCHANGED <<sess, hook, reviews, page>>

(* ------------------------------------------------------------------ *)
(* Snapshot queries                                                    *)
(* ------------------------------------------------------------------ *)
RECURSIVE NewestFirst(_)
\* sort by createdAt descending: documents are stored in creation order
NewestFirst(ids) ==
    IF ids = {} THEN <<>>
    ELSE LET m == CHOOSE i \in ids : \A j \in ids : j <= i
         IN  <<m>> \o NewestFirst(ids \ {m})

\* FindPending without the status in the query
FindPending_AnyStatus(st, model) == {i \in 1..Len(st) : st[i].model = model}

\* Model.find({ status: 'pending' })
FindPending(st, model) ==
    {i \in 1..Len(st) : st[i].model = model /\ st[i].status = "pending"}

\* Model.find({ sid: sid })
FindBySid(st, model, sid) ==
    {i \in 1..Len(st) : st[i].model = model /\ st[i].sid = sid}

\* the models fetchPendingDocuments queries
PendingModels == {"Activities", "Interned", "Company", "Skill"}

documentType(model) ==
    CASE model = "Activities" -> "curriculam"
      [] model = "Interned" -> "internship"
      [] model = "Company" -> "placement"
      [] model = "Skill" -> "skill"
      [] OTHER -> "none"

\* one entry of a payload's documents: the stored fields, the absolute url
Entry(st, i, type) ==
    [id |-> i, sid |-> st[i].sid, status |-> st[i].status,
     description |-> st[i].description, url |-> FullUrl(st[i].url),
     documentType |-> type]

fetchPendingDocuments(st) ==
    LET ids == UNION {FindPending(st, m) : m \in PendingModels}
        order == NewestFirst(ids)
    IN  [totalCount |-> Cardinality(ids),
         breakdown |-> [curriculam |-> Cardinality(FindPending(st, "Activities")),
                        internships |-> Cardinality(FindPending(st, "Interned")),
                        placements |-> Cardinality(FindPending(st, "Company")),
                        skills |-> Cardinality(FindPending(st, "Skill"))],
         documents |-> [k \in 1..Len(order) |->
                           Entry(st, order[k], documentType(st[order[k]].model))]]

fetchStudentDocuments(st, model, sid) ==
    LET order == NewestFirst(FindBySid(st, model, sid))
    IN  [totalCount |-> Len(order),
         documents |-> [k \in 1..Len(order) |-> Entry(st, order[k], "none")]]

fetchStudentSkills(st, sid) == fetchStudentDocuments(st, "Skill", sid)
fetchStudentCurricular(st, sid) == fetchStudentDocuments(st, "Activities", sid)
\* GPA records come from the upload endpoint only (AcademicUpload), which no
\* specification with a stream includes: the records (sorted by sem in the
\* code) are empty wherever a stream evaluates this
fetchStudentAcademics(st, sid) == fetchStudentDocuments(st, "GPA", sid)

(* ------------------------------------------------------------------ *)
(* The four event streams                                              *)
(* ------------------------------------------------------------------ *)
StreamKinds == {"admin", "academics", "skills", "curricular"}

EventName(kind) ==
    CASE kind = "admin" -> "pending-documents"
      [] kind = "academics" -> "academics-update"
      [] kind = "skills" -> "skills-update"
      [] kind = "curricular" -> "curricular-update"

SnapshotEvents == {EventName(k) : k \in StreamKinds}

\* the query a stream re-runs
Snapshot(st, kind, sid) ==
    CASE kind = "admin" -> fetchPendingDocuments(st)
      [] kind = "academics" -> fetchStudentAcademics(st, sid)
      [] kind = "skills" -> fetchStudentSkills(st, sid)
      [] kind = "curricular" -> fetchStudentCurricular(st, sid)

\* the _id of each document of a payload, in payload order
DocIds(payload) == [k \in 1..Len(payload.documents) |-> payload.documents[k].id]

\* StreamGate without the comparison of the path sid with the token's sid
StreamGate_NoScopeCheck(kind, cred, sidParam) ==
    IF kind = "admin" THEN 0
    ELSE authenticateStudent(cred).code

\* the middleware and scope check in front of a stream handler; 0 lets it run
StreamGate(kind, cred, sidParam) ==
    IF kind = "admin" THEN 0
    ELSE IF authenticateStudent(cred).code # 0 THEN authenticateStudent(cred).code
    ELSE IF kind = "academics" /\ sidParam # authenticateStudent(cred).sid THEN 403
    ELSE 0

\* StreamScope that takes the student from the request instead of the token
StreamScope_FromRequest(kind, cred, sidParam) ==
    CASE kind = "admin" -> Missing
      [] OTHER -> sidParam

\* the student a stream is scoped to
StreamScope(kind, cred, sidParam) ==
    CASE kind = "admin" -> Missing
      [] kind = "academics" -> sidParam
      [] OTHER -> authenticateStudent(cred).sid

\* one write to the response: the event's name and the code that wrote it
Written(name, from) == [name |-> name, from |-> from]

\* the request arrives: middleware, scope check, SSE headers flushed
OpenStream(kind, cred, sidParam) ==
    /\ sess.pc \in {"none", "ended", "refused"} \/ sess.remoteClosed
    /\ ~sess.polling
    /\ sess' = [NoSession EXCEPT
                   !.pc = IF StreamGate(kind, cred, sidParam) # 0 THEN "refused" ELSE "tick0",
                   !.kind = kind,
                   !.cred = cred,
                   !.sid = StreamScope(kind, cred, sidParam),
                   !.code = IF StreamGate(kind, cred, sidParam) # 0
                            THEN StreamGate(kind, cred, sidParam) ELSE 200]
    /\ UNCHANGED <<store, resp, uploads, hook, reviews, page>>

\* InitialData that writes nothing when the initial query throws
InitialData_Silent(dbOk) ==
    /\ sess.pc = "tick0"
    /\ sess' = [sess EXCEPT
                   !.pc = "live",
                   !.out = IF dbOk THEN <<Written(EventName(sess.kind), "open")>> ELSE <<>>,
                   !.snap = IF dbOk THEN DocIds(Snapshot(store, sess.kind, sess.sid))
                            ELSE <<>>,
                   !.pollInterval = TRUE,
                   !.heartbeatInterval = TRUE]
    /\ UNCHANGED <<store, resp, uploads, hook, reviews, page>>

\* the initial query resolves or throws; then both timers and the close handler are set
InitialData(dbOk) ==
    /\ sess.pc = "tick0"
    /\ sess' = [sess EXCEPT
                   !.pc = "live",
                   !.out = IF dbOk THEN <<Written(EventName(sess.kind), "open")>>
                           ELSE <<Written("error", "open")>>,
                   !.snap = IF dbOk THEN DocIds(Snapshot(store, sess.kind, sess.sid))
                            ELSE <<>>,
                   !.pollInterval = TRUE,
                   !.heartbeatInterval = TRUE]
    /\ UNCHANGED <<store, resp, uploads, hook, reviews, page>>

\* one firing of the 5 s interval: the callback starts the query and awaits
\* it; here the next firing comes after the query has settled (PollStart,
\* QueryRuns and QueryReturns below let firings overlap)
PollTick ==
    /\ sess.pc = "live"
    /\ sess.pollInterval
    /\ ~sess.polling
    /\ Len(sess.out) < MaxOut
    /\ sess' = [sess EXCEPT !.polling = TRUE]
    /\ UNCHANGED <<store, resp, uploads, hook, reviews, page>>

\* PollResolve that clears both timers when the query fails
PollResolve_StopsOnFailure(dbOk) ==
    /\ sess.polling
    /\ sess' = IF ~dbOk
               THEN [sess EXCEPT !.polling = FALSE, !.pollError = TRUE,
                                 !.pollInterval = FALSE, !.heartbeatInterval = FALSE]
               ELSE IF sess.pc = "ended"
               THEN [sess EXCEPT !.polling = FALSE]
               ELSE [sess EXCEPT
                       !.polling = FALSE,
                       !.pollError = FALSE,
                       !.out = Append(@, Written(EventName(sess.kind), "pollInterval")),
                       !.snap = DocIds(Snapshot(store, sess.kind, sess.sid))]
    /\ UNCHANGED <<store, resp, uploads, hook, reviews, page>>

\* the awaited query settles: the callback writes the result it read, or only
\* logs the failure; it runs whether or not the timers were cleared meanwhile,
\* and a response that the close handler has ended takes no write
PollResolve(dbOk) ==
    /\ sess.polling
    /\ sess' = IF ~dbOk
               THEN [sess EXCEPT !.polling = FALSE, !.pollError = TRUE]
               ELSE IF sess.pc = "ended"
               THEN [sess EXCEPT !.polling = FALSE]
               ELSE [sess EXCEPT
                       !.polling = FALSE,
                       !.pollError = FALSE,
                       !.out = Append(@, Written(EventName(sess.kind), "pollInterval")),
                       !.snap = DocIds(Snapshot(store, sess.kind, sess.sid))]
    /\ UNCHANGED <<store, resp, uploads, hook, reviews, page>>

\* one firing of the 5 s interval while earlier queries may be in flight:
\* setInterval does not wait for the callback's promise
PollStart ==
    /\ sess.pc = "live"
    /\ sess.pollInterval
    /\ sess.ticks < MaxTicks
    /\ sess' = [sess EXCEPT !.ticks = @ + 1,
                            !.queries = @ \cup {[tick |-> sess.ticks + 1, read |-> FALSE,
                                                 snap |-> <<>>]}]
    /\ UNCHANGED <<store, resp, uploads, hook, reviews, page>>

\* the store executes the find of query q
QueryRuns(q) ==
    /\ q \in sess.queries /\ ~q.read
    /\ sess' = [sess EXCEPT !.queries =
                   (@ \ {q}) \cup {[q EXCEPT !.read = TRUE,
                                             !.snap = DocIds(Snapshot(store, sess.kind,
                                                                      sess.sid))]}]
    /\ UNCHANGED <<store, resp, uploads, hook, reviews, page>>

\* the await of query q resumes and the callback writes what the query read;
\* order lists the snapshots written by poll callbacks with their firing
QueryReturns(q) ==
    /\ q \in sess.queries /\ q.read
    /\ sess' = IF sess.pc = "ended"
               THEN [sess EXCEPT !.queries = @ \ {q}]
               ELSE [sess EXCEPT
                       !.queries = @ \ {q},
                       !.out = Append(@, Written(EventName(sess.kind), "pollInterval")),
                       !.snap = q.snap,
                       !.order = Append(@, [tick |-> q.tick, snap |-> q.snap])]
    /\ UNCHANGED <<store, resp, uploads, hook, reviews, page>>

\* one firing of the 30 s interval
Heartbeat ==
    /\ sess.pc = "live"
    /\ sess.heartbeatInterval
    /\ Len(sess.out) < MaxOut
    /\ sess' = [sess EXCEPT !.out = Append(@, Written("heartbeat", "heartbeatInterval"))]
    /\ UNCHANGED <<store, resp, uploads, hook, reviews, page>>

\* the remote end closes; req's 'close' listener exists only once the timers are set
RemoteClose ==
    /\ sess.pc \in {"tick0", "live"}
    /\ ~sess.remoteClosed
    /\ sess' = IF sess.pc = "live"
               THEN [sess EXCEPT !.pc = "ended", !.remoteClosed = TRUE,
                                 !.pollInterval = FALSE, !.heartbeatInterval = FALSE]
               ELSE [sess EXCEPT !.remoteClosed = TRUE]
    /\ UNCHANGED <<store, resp, uploads, hook, reviews, page>>

(* ------------------------------------------------------------------ *)
(* The stream hooks of the student pages                               *)
(* (useSkillsSSE, useAcademicsSSE, useCurricularSSE)                   *)
(* ------------------------------------------------------------------ *)
HookKinds == {"skills", "academics", "curricular"}

\* the effect's cleanup closes the EventSource the previous run opened
Cleanup(es) == IF es = "open" THEN "closed" ELSE es

\* the hook's state as the effect finds it: a component mounted anew starts
\* from the useState initial values
AtEffect(h, kind, enabled) ==
    [(IF h.mounted THEN h ELSE NoHook) EXCEPT !.kind = kind, !.mounted = TRUE,
                                              !.enabled = enabled, !.lastEvent = "setup"]

\* setupSSE, run by the effect on mount and when its dependencies change
setupSSE(kind, enabled, token) ==
    /\ hook.kind \in {"none", kind}
    /\ hook' =
          IF ~enabled
          THEN [AtEffect(hook, kind, enabled) EXCEPT !.loading = FALSE,
                                                     !.eventSource = Cleanup(@)]
          ELSE IF token = NoTok
          THEN [AtEffect(hook, kind, enabled) EXCEPT
                   !.error = "Authentication token not found. Please log in again.",
                   !.loading = FALSE, !.eventSource = Cleanup(@)]
          ELSE [AtEffect(hook, kind, enabled) EXCEPT !.error = NoError, !.loading = TRUE,
                                                     !.eventSource = "open"]
    /\ UNCHANGED <<store, resp, sess, uploads, reviews, page>>

\* the text a hook shows when JSON.parse throws
ParseError(kind) ==
    CASE kind = "skills" -> "Failed to parse skills data"
      [] kind = "academics" -> "Failed to parse academic data"
      [] kind = "curricular" -> "Failed to parse curricular data"

\* the listener of the hook's data event, as a function of the hook's state:
\* payload.json tells whether JSON.parse accepts the text, payload.documents
\* is the parsed object's documents (records) property, absent or a list
UpdateListener(h, payload) ==
    IF payload.json
    THEN [h EXCEPT !.collection = payload.documents, !.isConnected = TRUE,
                   !.loading = FALSE, !.lastEvent = "update"]
    ELSE [h EXCEPT !.error = ParseError(h.kind), !.lastEvent = "parse-failure"]

\* a data event arrives on the open EventSource
onUpdate(payload) ==
    /\ hook.eventSource = "open"
    /\ hook' = UpdateListener(hook, payload)
    /\ UNCHANGED <<store, resp, sess, uploads, reviews, page>>

\* an error event arrives: the 'error' listener runs, then onerror
onError ==
    /\ hook.eventSource = "open"
    /\ hook' = [hook EXCEPT !.isConnected = FALSE,
                            !.error = "Failed to connect to real-time updates",
                            !.eventSource = "closed", !.lastEvent = "error"]
    /\ UNCHANGED <<store, resp, sess, uploads, reviews, page>>

\* the component is unmounted: the effect's cleanup runs
HookUnmount ==
    /\ hook.mounted
    /\ hook' = [hook EXCEPT !.mounted = FALSE, !.eventSource = Cleanup(@),
                            !.lastEvent = "unmount"]
    /\ UNCHANGED <<store, resp, sess, uploads, reviews, page>>

(* ------------------------------------------------------------------ *)
(* The requests page of the administrator (RequestsPage)               *)
(* ------------------------------------------------------------------ *)
\* connectSSE: a new EventSource, which eventSourceRef.current then refers to
connectSSE(p) ==
    [p EXCEPT !.es = Append(@, "connecting"), !.ref = Len(p.es) + 1]

\* the stream effect on mount of a fresh component: without a token it returns
PageMount(token) ==
    /\ ~page.mounted
    /\ Len(page.es) < MaxEs
    /\ page' = LET fresh == [NoPage EXCEPT !.mounted = TRUE, !.es = page.es,
                                           !.stale = page.stale, !.lastEvent = "mount"]
               IN  IF token = NoTok THEN fresh ELSE connectSSE(fresh)
    /\ UNCHANGED <<store, resp, sess, uploads, hook, reviews>>

\* the connection of EventSource i is established: onopen
EsOpen(i) ==
    /\ i \in 1..Len(page.es) /\ page.es[i] = "connecting"
    /\ page' = [page EXCEPT !.es[i] = "open", !.isLiveConnected = TRUE,
                            !.lastEvent = "open"]
    /\ UNCHANGED <<store, resp, sess, uploads, hook, reviews>>

\* a pending-documents event arrives on EventSource i; a payload that
\* JSON.parse refuses is logged only
EsMessage(i, payload) ==
    /\ i \in 1..Len(page.es) /\ page.es[i] = "open"
    /\ page' = IF payload.json
               THEN [page EXCEPT !.documents = payload.documents,
                                 !.totalCount = Len(payload.documents.items),
                                 !.loading = FALSE, !.lastEvent = "update"]
               ELSE [page EXCEPT !.lastEvent = "parse-failure"]
    /\ UNCHANGED <<store, resp, sess, uploads, hook, reviews>>

\* the timeout's test of the referenced connection
ShouldReconnect_Always(p) == TRUE

ShouldReconnect(p) == p.ref # 0 /\ p.es[p.ref] = "closed"

\* an error event on EventSource i: the browser either drops the connection
\* for good (fatal: readyState CLOSED) or goes back to CONNECTING and retries
\* by itself; onerror clears the flags and arms a timeout
EsError(i, fatal) ==
    /\ i \in 1..Len(page.es) /\ page.es[i] # "closed"
    /\ page.timers + page.stale < MaxTimers
    /\ page' = [page EXCEPT !.es[i] = IF fatal THEN "closed" ELSE "connecting",
                            !.isLiveConnected = FALSE, !.loading = FALSE,
                            !.timers = @ + 1, !.lastEvent = "error"]
    /\ UNCHANGED <<store, resp, sess, uploads, hook, reviews>>

\* a reconnect timeout of the mounted component fires
TimerFires ==
    /\ page.timers > 0
    /\ ShouldReconnect(page) => Len(page.es) < MaxEs
    /\ page' = LET p == [page EXCEPT !.timers = @ - 1, !.lastEvent = "timer"]
               IN  IF ShouldReconnect(p) THEN connectSSE(p) ELSE p
    /\ UNCHANGED <<store, resp, sess, uploads, hook, reviews>>

\* a timeout armed by a component that was unmounted since: its ref is null
StaleTimerFires ==
    /\ page.stale > 0
    /\ page' = [page EXCEPT !.stale = @ - 1, !.lastEvent = "stale-timer"]
    /\ UNCHANGED <<store, resp, sess, uploads, hook, reviews>>

\* the effect's cleanup that closes the connection and keeps the ref
PageCleanup_KeepRef(p) ==
    IF p.ref # 0 THEN [p EXCEPT !.es[p.ref] = "closed"] ELSE p

\* the effect's cleanup
PageCleanup(p) ==
    IF p.ref # 0 THEN [p EXCEPT !.es[p.ref] = "closed", !.ref = 0] ELSE p

\* the component is unmounted: the cleanup runs, the timeouts stay armed; a
\* timeout whose ref still refers to a connection stays one of this component
PageUnmount ==
    /\ page.mounted
    /\ page' = LET p == PageCleanup(page)
               IN  [p EXCEPT !.mounted = FALSE, !.lastEvent = "unmount",
                             !.stale = IF p.ref = 0 THEN @ + p.timers ELSE @,
                             !.timers = IF p.ref = 0 THEN 0 ELSE @]
    /\ UNCHANGED <<store, resp, sess, uploads, hook, reviews>>

(* ------------------------------------------------------------------ *)
(* Requests the clients send                                           *)
(* ------------------------------------------------------------------ *)
CredH(t) == [header |-> t, query |-> NoTok]
CredQ(t) == [header |-> NoTok, query |-> t]

\* credentials that the student middleware lets through
StudentCreds == {CredH("stuA"), CredQ("stuA"), CredH("stuB")}
\* credentials that the admin middleware lets through
AdminCreds == {CredH("adm"), CredQ("adm")}
\* nothing, a bad token, a bad header over a good query
OtherCreds == {CredH(NoTok), CredH("bad"), [header |-> "bad", query |-> "adm"],
               [header |-> "bad", query |-> "stuA"]}

SubmitKeys == {"curriculam", "extracurriculam", "internship", "placement", "skill"}

SubmitBody(key, hasFile, description, status) ==
    [key |-> key, hasFile |-> hasFile, fields |-> TRUE, companytype |-> "private",
     skillname |-> "Python", originalname |-> PlainName, sid |-> Missing,
     description |-> description, status |-> status, dbOk |-> TRUE]

WithCred(body, cred) ==
    [x \in DOMAIN body \cup {"cred"} |-> IF x = "cred" THEN cred ELSE body[x]]

\* well-formed bodies, with and without attachment, description and a stray status
GoodSubmits(keys, statuses) ==
    {SubmitBody(k, f, d, s) : k \in keys, f \in BOOLEAN, d \in {Missing, "sd"}, s \in statuses}

\* bodies that fail validation, and one whose save fails
BadSubmits ==
    {[SubmitBody("skill", TRUE, Missing, Missing) EXCEPT !.key = k] : k \in {Missing, "bogus"}}
    \cup {[SubmitBody(k, TRUE, "sd", Missing) EXCEPT !.fields = FALSE] :
              k \in SubmitKeys \ {"skill"}}
    \cup {[SubmitBody("skill", TRUE, Missing, Missing) EXCEPT !.skillname = Missing]}
    \cup {[SubmitBody(k, TRUE, Missing, Missing) EXCEPT !.companytype = "other"] :
              k \in {"internship", "placement"}}
    \cup {[SubmitBody("skill", TRUE, Missing, Missing) EXCEPT !.dbOk = FALSE]}

\* a submission by each credential that the student middleware turns away
RefusedSubmits ==
    {WithCred(SubmitBody("skill", TRUE, Missing, Missing), c) : c \in OtherCreds \cup AdminCreds}

\* every kind of submission, by both students
AllSubmitReqs ==
    {WithCred(b, c) : b \in GoodSubmits(SubmitKeys, {Missing, "accepted"}) \cup BadSubmits,
                      c \in StudentCreds}
    \cup RefusedSubmits

\* the variants the review runs are driven with: one resolved through the alias
\* table, and one resolved by model name that is created with a description
ReviewKeys == {"skill", "extracurriculam"}

SubmitReqs ==
    {WithCred(b, CredH("stuA")) :
        b \in {SubmitBody(k, TRUE, "sd", Missing) : k \in ReviewKeys}
              \cup {SubmitBody("extracurriculam", FALSE, "sd", Missing),
                    SubmitBody("skill", FALSE, Missing, Missing),
                    SubmitBody("skill", TRUE, Missing, "approved"),
                    [SubmitBody("skill", TRUE, Missing, "accepted") EXCEPT !.sid = "B"]}}
    \cup {WithCred(SubmitBody("skill", TRUE, Missing, Missing), CredH(NoTok))}

\* tags as an administrator may type them: one needs trimming and lower-casing
ReviewTags == {" Skills ", "extracurriculam"}
OtherTags == {"Curriculam", "gpa", "bogus"}

\* the locations an administrator can name: the absolute url of every upload, one relative
DocUrls == {FullUrl(StoredUrl(n)) : n \in 1..MaxDocs} \cup {StoredUrl(1)}

Descriptions == {"d1", "d2"}

ReviewBody(sid, docurl, documentype, description) ==
    [sid |-> sid, docurl |-> docurl, documentype |-> documentype,
     description |-> description, dbOk |-> TRUE]

\* reviews of A's uploads under every tag and description, and a few that name
\* another owner or another collection
GoodReviews(descs, d0) ==
    {ReviewBody("A", u, t, d) : u \in DocUrls, t \in ReviewTags, d \in descs}
    \cup {ReviewBody("A", FullUrl(StoredUrl(1)), t, d0) : t \in OtherTags}
    \cup {ReviewBody("B", FullUrl(StoredUrl(1)), "skill", d0)}

\* reviews with a field missing, and one whose update fails
BadReviews(d) ==
    {ReviewBody(Missing, StoredUrl(1), "skill", d),
     ReviewBody("A", NoUrl, "skill", d),
     ReviewBody("A", StoredUrl(1), Missing, d),
     [ReviewBody("A", StoredUrl(1), "skill", d) EXCEPT !.dbOk = FALSE]}

\* a review without a token, with a bad token and with a student's token
RefusedReviews(d) ==
    {WithCred(ReviewBody("A", StoredUrl(1), "skill", d), c) :
        c \in {CredH(NoTok), CredH("bad"), CredQ("stuA")}}

AcceptReqs ==
    {WithCred(b, CredH("adm")) : b \in GoodReviews({Missing}, Missing) \cup BadReviews(Missing)}
    \cup RefusedReviews(Missing)

RejectReqs ==
    {WithCred(b, CredH("adm")) :
        b \in GoodReviews(Descriptions, "d1")
              \cup {ReviewBody("A", FullUrl(StoredUrl(1)), "skill", d) : d \in {"", " ", Missing}}
              \cup BadReviews("d1")}
    \cup RefusedReviews("d1")

(* ------------------------------------------------------------------ *)
(* Specifications                                                      *)
(* ------------------------------------------------------------------ *)
\* the record store under the submit and review endpoints
Submit == \E req \in SubmitReqs : SubmitDocument(req)
Accept == \E req \in AcceptReqs : AcceptDocument(req)
Reject == \E req \in RejectReqs : RejectDocument(req)

Next == Submit \/ Accept \/ Reject

Spec == Init /\ [][Next]_vars

\* the submit endpoint alone, over every variant key and both students
NextSubmit == \E req \in AllSubmitReqs : SubmitDocument(req)

SpecSubmit == Init /\ [][NextSubmit]_vars

\* one connection at a time to any of the four streams, while students submit
StreamOpens ==
    {<<"admin", c, Missing>> : c \in {CredQ("adm"), CredH(NoTok), CredQ("stuA"), CredQ("bad")}}
    \cup {<<"academics", CredQ(t), sid>> : t \in {"stuA", "stuB"}, sid \in Students}
    \cup {<<"academics", c, "A">> : c \in {CredH(NoTok), CredQ("bad"), CredQ("adm")}}
    \cup {<<k, c, Missing>> : k \in {"skills", "curricular"},
                              c \in {CredQ("stuA"), CredH("stuB"), CredH(NoTok), CredQ("adm")}}
    \cup {<<"skills", CredQ("stuA"), "B">>}

StreamSubmitReqs ==
    {WithCred(SubmitBody("skill", TRUE, Missing, Missing), CredH("stuA")),
     WithCred(SubmitBody("skill", TRUE, Missing, Missing), CredH("stuB")),
     WithCred(SubmitBody("curriculam", TRUE, "sd", Missing), CredH("stuA")),
     WithCred(SubmitBody("skill", FALSE, Missing, Missing), CredH("stuA"))}

Open == \E o \in StreamOpens : OpenStream(o[1], o[2], o[3])
Initial == \E dbOk \in BOOLEAN : InitialData(dbOk)
Poll == PollTick
Resolve == \E dbOk \in BOOLEAN : PollResolve(dbOk)
StreamSubmit == \E req \in StreamSubmitReqs : SubmitDocument(req)

NextStream ==
    Open \/ Initial \/ Poll \/ Resolve \/ Heartbeat \/ RemoteClose \/ StreamSubmit

SpecStream == Init /\ [][NextStream]_vars

\* the admin stream over a store of every variant under submit, accept and reject
PendingSubmitReqs ==
    {WithCred(SubmitBody(k, TRUE, "sd", Missing), CredH("stuA")) : k \in SubmitKeys}

PendingTags == {"skill", "curriculam", "internship", "placement", "extracurriculam"}

PendingReviews(d) ==
    {WithCred(ReviewBody("A", FullUrl(StoredUrl(n)), t, d), CredH("adm")) :
        n \in 1..MaxDocs, t \in PendingTags}

AdminOpen == OpenStream("admin", CredQ("adm"), Missing)
PendingSubmit == \E req \in PendingSubmitReqs : SubmitDocument(req)
PendingAccept == \E req \in PendingReviews(Missing) : AcceptDocument(req)
PendingReject == \E req \in PendingReviews("d1") : RejectDocument(req)

NextPending ==
    AdminOpen \/ Initial \/ Poll \/ Resolve \/ PendingSubmit \/ PendingAccept \/ PendingReject

SpecPending == Init /\ [][NextPending]_vars

\* the admin stream over skill and internship submissions under submit and accept
ReviewedSubmitReqs ==
    {WithCred(SubmitBody(k, TRUE, Missing, Missing), CredH("stuA")) : k \in {"skill", "internship"}}

ReviewedAccepts ==
    {WithCred(ReviewBody("A", FullUrl(StoredUrl(n)), t, Missing), CredH("adm")) :
        n \in 1..MaxDocs, t \in {"skill", "internship"}}

ReviewedSubmit == \E req \in ReviewedSubmitReqs : SubmitDocument(req)
ReviewedAccept == \E req \in ReviewedAccepts : AcceptDocument(req)

NextReviewed == AdminOpen \/ Initial \/ Poll \/ Resolve \/ ReviewedSubmit \/ ReviewedAccept

SpecReviewed == Init /\ [][NextReviewed]_vars

\* one skills stream whose poll firings overlap, over A's skill submissions
OverlapSubmitReqs ==
    {WithCred(SubmitBody("skill", TRUE, Missing, Missing), CredH(t)) : t \in {"stuA", "stuB"}}

OverlapQueries ==
    {[tick |-> t, read |-> r, snap |-> s] :
        t \in 1..MaxTicks, r \in BOOLEAN,
        s \in {<<>>} \cup {<<i>> : i \in 1..MaxDocs}
              \cup {<<i, j>> : i \in 1..MaxDocs, j \in 1..MaxDocs}
              \cup {<<i, j, k>> : i \in 1..MaxDocs, j \in 1..MaxDocs, k \in 1..MaxDocs}}

OverlapOpen == OpenStream("skills", CredQ("stuA"), Missing)
OverlapSubmit == \E req \in OverlapSubmitReqs : SubmitDocument(req)
Runs == \E q \in OverlapQueries : QueryRuns(q)
Returns == \E q \in OverlapQueries : QueryReturns(q)

NextOverlap ==
    OverlapOpen \/ Initial \/ PollStart \/ Runs \/ Returns \/ RemoteClose \/ OverlapSubmit

SpecOverlap == Init /\ [][NextOverlap]_vars

\* the skills page of student A and its stream session: the hook's EventSource
\* sends the stream request, the events the handler writes travel on the
\* connection in order (wire holds those the client has yet to receive; out,
\* the history of writes, is not extended by the polls here), the firings of
\* the poll interval may overlap, and the hook's listeners run as events arrive
ConvergeSubmitReqs ==
    {WithCred(SubmitBody("skill", TRUE, Missing, Missing), CredH(t)) : t \in {"stuA", "stuB"}}

\* an event on the connection: its name and the ids of its data's documents
Event(name, ids) == [name |-> name, ids |-> ids]

\* JSON.parse of the data JSON.stringify wrote for a fetch result: an object
\* whose documents property is the list
Parsed(ids) == [json |-> TRUE, documents |-> List(ids)]

ConvergeSetup ==
    /\ ~hook.mounted
    /\ setupSSE("skills", TRUE, "stuA")

ConvergeOpen ==
    /\ hook.eventSource = "open" /\ hook.kind = "skills"
    /\ sess.pc = "none"
    /\ OpenStream("skills", CredQ("stuA"), Missing)

\* the initial query of the handler and its write
SendInitial(dbOk) ==
    /\ sess.pc = "tick0"
    /\ sess' = [sess EXCEPT
                   !.pc = "live",
                   !.out = IF dbOk THEN <<Written(EventName(sess.kind), "open")>>
                           ELSE <<Written("error", "open")>>,
                   !.snap = IF dbOk THEN DocIds(Snapshot(store, sess.kind, sess.sid))
                            ELSE <<>>,
                   !.wire = IF dbOk
                            THEN <<Event(EventName(sess.kind),
                                         DocIds(Snapshot(store, sess.kind, sess.sid)))>>
                            ELSE <<Event("error", <<>>)>>,
                   !.pollInterval = TRUE,
                   !.heartbeatInterval = TRUE]
    /\ UNCHANGED <<store, resp, uploads, hook, reviews, page>>

\* at most this many queries of one session's poll callbacks are awaited at once
Slots == {1, 2}

\* one firing of the 5 s interval, whether or not earlier firings still await
\* their query; k names the firing among those in flight
PollFires(k) ==
    /\ sess.pc = "live" /\ sess.pollInterval
    /\ k \notin {q.tick : q \in sess.queries}
    /\ sess' = [sess EXCEPT !.queries = @ \cup {[tick |-> k, read |-> FALSE, snap |-> <<>>]}]
    /\ UNCHANGED <<store, resp, uploads, hook, reviews, page>>

\* QuerySends that writes the session's previous snapshot again
QuerySends_Cached(q, dbOk) ==
    /\ q \in sess.queries /\ q.read
    /\ sess.pc = "live"
    /\ Len(sess.wire) < Cardinality(Slots)
    /\ sess' = IF dbOk
               THEN [sess EXCEPT !.queries = @ \ {q},
                                 !.pollError = FALSE,
                                 !.wire = Append(@, Event(EventName(sess.kind), sess.snap))]
               ELSE [sess EXCEPT !.queries = @ \ {q}, !.pollError = TRUE]
    /\ UNCHANGED <<store, resp, uploads, hook, reviews, page>>

\* the await of query q resumes: the callback writes the snapshot the query
\* read, or only logs the failure; the connection buffers at most as many
\* events as there are callbacks that can await
QuerySends(q, dbOk) ==
    /\ q \in sess.queries /\ q.read
    /\ sess.pc = "live"
    /\ Len(sess.wire) < Cardinality(Slots)
    /\ sess' = IF dbOk
               THEN [sess EXCEPT !.queries = @ \ {q},
                                 !.pollError = FALSE,
                                 !.snap = q.snap,
                                 !.wire = Append(@, Event(EventName(sess.kind), q.snap))]
               ELSE [sess EXCEPT !.queries = @ \ {q}, !.pollError = TRUE]
    /\ UNCHANGED <<store, resp, uploads, hook, reviews, page>>

\* the EventSource dispatches the next event of the connection: the data
\* event to the hook's update listener, a server event named error to its
\* 'error' listener
Receive ==
    /\ hook.eventSource = "open"
    /\ sess.wire # <<>>
    /\ hook' = IF Head(sess.wire).name = "error"
               THEN [hook EXCEPT !.isConnected = FALSE,
                                 !.error = "Failed to connect to real-time updates",
                                 !.eventSource = "closed", !.lastEvent = "error"]
               ELSE UpdateListener(hook, Parsed(Head(sess.wire).ids))
    /\ sess' = [sess EXCEPT !.wire = Tail(@)]
    /\ UNCHANGED <<store, resp, uploads, reviews, page>>

ConvergeInitial == \E dbOk \in BOOLEAN : SendInitial(dbOk)
ConvergeFire == \E k \in Slots : PollFires(k)
ConvergeRuns == \E q \in OverlapQueries : QueryRuns(q)
ConvergeSends == \E q \in OverlapQueries, dbOk \in BOOLEAN : QuerySends(q, dbOk)
ConvergeSubmit == \E req \in ConvergeSubmitReqs : SubmitDocument(req)

NextConverge ==
    \/ ConvergeSetup \/ ConvergeOpen \/ ConvergeInitial
    \/ ConvergeFire \/ ConvergeRuns \/ ConvergeSends \/ Receive
    \/ ConvergeSubmit \/ onError

\* the browser sends the request of an EventSource it created, the handler
\* runs its initial query, the interval keeps firing while it is set, the
\* store answers queries, awaits resume, and the browser dispatches the events
\* it received
SpecConverge ==
    /\ Init /\ [][NextConverge]_vars
    /\ WF_vars(ConvergeSetup) /\ WF_vars(ConvergeOpen) /\ WF_vars(ConvergeInitial)
    /\ WF_vars(ConvergeFire) /\ WF_vars(ConvergeRuns) /\ WF_vars(ConvergeSends)
    /\ WF_vars(Receive)

\* the requests page reviewing the entries of the snapshot it shows
LocateSubmitReqs ==
    {WithCred([SubmitBody("skill", TRUE, Missing, Missing) EXCEPT !.originalname = name],
              CredH("stuA")) : name \in OriginalNames}
    \cup {WithCred(SubmitBody("curriculam", f, "sd", Missing), CredH("stuA")) : f \in BOOLEAN}

\* the body handleRequestAction posts for a listed document
ReviewFromEntry(doc, newStatus, reason) ==
    WithCred(ReviewBody(doc.sid, doc.url, doc.documentType,
                        IF newStatus = "rejected" THEN reason ELSE Missing),
             CredH("adm"))

\* the documents of the snapshot of the store as it is
Listed == fetchPendingDocuments(store).documents

LocateSubmit == \E req \in LocateSubmitReqs : SubmitDocument(req)
PageAccept ==
    \E k \in 1..Len(Listed) : AcceptDocument(ReviewFromEntry(Listed[k], "accepted", Missing))
PageReject ==
    \E k \in 1..Len(Listed) : RejectDocument(ReviewFromEntry(Listed[k], "rejected", "d1"))

NextLocate == LocateSubmit \/ PageAccept \/ PageReject

SpecLocate == Init /\ [][NextLocate]_vars

\* two review handlers at once over a store of skill submissions
RaceSubmitReqs == {WithCred(SubmitBody("skill", TRUE, Missing, Missing), CredH("stuA"))}

RaceReviews ==
    {<<"accept", WithCred(ReviewBody("A", FullUrl(StoredUrl(n)), " Skills ", Missing),
                          CredH("adm"))>> : n \in 1..MaxDocs}
    \cup {<<"reject", WithCred(ReviewBody("A", FullUrl(StoredUrl(n)), " Skills ", d),
                               CredH("adm"))>> : n \in 1..MaxDocs, d \in Descriptions}
    \cup {<<"reject", WithCred(ReviewBody("A", FullUrl(StoredUrl(1)), " Skills ", Missing),
                               CredH("adm"))>>,
          <<"accept", WithCred(ReviewBody("A", FullUrl(StoredUrl(1)), "skill", Missing),
                               CredH("stuA"))>>}

RaceSubmit == \E req \in RaceSubmitReqs : SubmitDocument(req)
Begin == \E h \in Handlers, r \in RaceReviews : ReviewBegin(h, r[1], r[2])
Commit == \E h \in Handlers : ReviewCommit(h)

NextRace == RaceSubmit \/ Begin \/ Commit

SpecRace == Init /\ [][NextRace]_vars

\* reviews under tags of every kind over a store of skill submissions and
\* academic records
AcademicBody(sid, gpa, sem, hasFile) ==
    [sid |-> sid, gpa |-> gpa, sem |-> sem, hasFile |-> hasFile, dbOk |-> TRUE]

AcademicReqs ==
    {WithCred(b, CredH("adm")) :
        b \in {AcademicBody("A", "8.5", "3", TRUE),
               AcademicBody("A", "8.5", "9", TRUE),
               AcademicBody("A", "8.5", "3", FALSE),
               AcademicBody("A", Missing, "3", TRUE),
               AcademicBody("Z", "8.5", "3", TRUE),
               [AcademicBody("A", "8.5", "3", TRUE) EXCEPT !.dbOk = FALSE]}}
    \cup {WithCred(AcademicBody("A", "8.5", "3", TRUE), CredH("stuA"))}

\* tags that name a submission collection, another collection, and none
AnyTags == {" Skills ", "extracurriculam", " GPA ", "student", "Faculty", "constructor", "bogus"}

TagReviews ==
    {<<op, WithCred(ReviewBody("A", FullUrl(StoredUrl(n)), t, "d1"), CredH("adm"))>> :
        op \in {"accept", "reject"}, n \in {1, 2}, t \in AnyTags}
    \cup {<<"reject", WithCred([ReviewBody("A", FullUrl(StoredUrl(1)), t, "d1")
                                   EXCEPT !.dbOk = FALSE], CredH("adm"))>> :
            t \in {" GPA ", "bogus", " Skills "}}
    \cup {<<"accept", WithCred(ReviewBody("A", FullUrl(StoredUrl(1)), " GPA ", Missing),
                               CredH("stuA"))>>}

Academic == \E req \in AcademicReqs : AcademicUpload(req)
\* one review at a time
TagBegin == \E r \in TagReviews : ReviewBegin(1, r[1], r[2])
TagCommit == ReviewCommit(1)

NextTags == RaceSubmit \/ Academic \/ TagBegin \/ TagCommit

SpecTags == Init /\ [][NextTags]_vars

\* the requests page under stream events, errors, timeouts, unmount and remount
PagePayloads == {[json |-> TRUE, documents |-> List(d)] : d \in {<<>>, <<1>>}}
                \cup {[json |-> FALSE, documents |-> Undefined]}

Mount == \E token \in {NoTok, "adm"} : PageMount(token)
Opened == \E i \in 1..MaxEs : EsOpen(i)
Message == \E i \in 1..MaxEs, payload \in PagePayloads : EsMessage(i, payload)
Errored == \E i \in 1..MaxEs, fatal \in BOOLEAN : EsError(i, fatal)

NextPage ==
    Mount \/ Opened \/ Message \/ Errored \/ TimerFires \/ StaleTimerFires \/ PageUnmount

SpecPage == Init /\ [][NextPage]_vars

\* one stream hook fed with well-formed and malformed data events
DocLists == {<<>>, <<1>>, <<2>>, <<2, 1>>}

WellFormedPayloads == {[json |-> TRUE, documents |-> List(d)] : d \in DocLists}

\* text that is not JSON, and JSON without the documents property
MalformedPayloads == {[json |-> FALSE, documents |-> Undefined],
                      [json |-> TRUE, documents |-> Undefined]}

Setup == \E kind \in HookKinds, enabled \in BOOLEAN, token \in {NoTok, "stuA"} :
            setupSSE(kind, enabled, token)
Update == \E payload \in WellFormedPayloads \cup MalformedPayloads : onUpdate(payload)

NextHook == Setup \/ Update \/ onError \/ HookUnmount

SpecHook == Init /\ [][NextHook]_vars

\* one academics hook and the requests page, mounted, fed and unmounted
UnmountPayloads == {[json |-> TRUE, documents |-> List(<<1>>)],
                    [json |-> FALSE, documents |-> Undefined]}

UnmountSetup == \E enabled \in BOOLEAN : setupSSE("academics", enabled, "stuA")
UnmountUpdate == \E payload \in UnmountPayloads : onUpdate(payload)
UnmountMessage == \E i \in 1..MaxEs, payload \in UnmountPayloads : EsMessage(i, payload)

NextUnmount ==
    \/ UnmountSetup \/ UnmountUpdate \/ onError \/ HookUnmount
    \/ PageMount("adm") \/ Opened \/ UnmountMessage \/ Errored \/ TimerFires
    \/ StaleTimerFires \/ PageUnmount

SpecUnmount == Init /\ [][NextUnmount]_vars

(* ------------------------------------------------------------------ *)
(* Properties of the review endpoints                                  *)
(* ------------------------------------------------------------------ *)
\* String.prototype.trim() leaves nothing
IsBlank(d) == d \in {"", " "}

\* a review request that passes the middleware and every check before the update
ReviewReaches(req, needDescription) == ReviewPrecheck(req, needDescription) = 0 /\ req.dbOk

\* the stored submissions a review request names: owner and normalized location
\* within the collection its tag resolves to
Named(st, req) ==
    {i \in 1..Len(st) :
        /\ st[i].model = resolveModel(LowerTrim(req.documentype))
        /\ st[i].sid = req.sid
        /\ st[i].url = normalizeDocUrl(req.docurl)}

\* store and store' differ at most in the review fields of document i
OnlyReviewed(i, status, description) ==
    /\ Len(store') = Len(store)
    /\ \A j \in 1..Len(store) : j # i => store'[j] = store[j]
    /\ store'[i] = [store[i] EXCEPT !.status = status, !.description = description]

\* C4: a reject whose description is empty or only whitespace is refused and
\* changes no submission.
C4_BlankRejectRefused ==
    [][resp'.op = "reject" =>
          \A req \in RejectReqs :
             (authenticateAdmin(req.cred) = 0 /\ IsBlank(req.description)
                 /\ RejectDocument(req))
             => (resp'.code = 400 /\ store' = store)]_vars

\* C4, what is reached: a reject with a whitespace-only description succeeded
\* and the description is stored.
C4_BlankStored ==
    /\ resp.op = "reject" /\ resp.code = 200
    /\ \E i \in 1..Len(store) : store[i].status = "rejected" /\ store[i].description = " "

\* C6: a successful review updates exactly one submission and leaves every
\* other one unchanged: accept sets accepted and removes the description,
\* reject sets rejected and stores the given description verbatim.
C6_ReviewUpdatesOne ==
    [][/\ (resp'.op = "accept" /\ resp'.code = 200) =>
            \A req \in AcceptReqs :
               AcceptDocument(req)
               => \E i \in Named(store, req) : OnlyReviewed(i, "accepted", NoDesc)
       /\ (resp'.op = "reject" /\ resp'.code = 200) =>
            \A req \in RejectReqs :
               RejectDocument(req)
               => \E i \in Named(store, req) :
                     OnlyReviewed(i, "rejected", req.description)
      ]_vars

\* C6 witness: an accept found a document that carried a description, removed
\* it, and left the other stored submission as it was.
C6_Witness ==
    /\ resp.op = "accept" /\ resp.code = 200 /\ resp.found.description # NoDesc
    /\ Len(store) = 2
    /\ \E i \in 1..2 : /\ store[i].status = "accepted" /\ store[i].description = NoDesc
                         /\ store[3 - i].status = "rejected"
                         /\ store[3 - i].description = "d1"

\* C7: an accept or reject that names no stored submission reports not-found
\* and leaves the whole store unchanged.
C7_NoMatchNotFound ==
    [][/\ resp'.op = "accept" =>
            \A req \in AcceptReqs :
               (ReviewReaches(req, FALSE) /\ Named(store, req) = {}
                   /\ AcceptDocument(req))
               => (resp'.code = 404 /\ store' = store)
       /\ resp'.op = "reject" =>
            \A req \in RejectReqs :
               (ReviewReaches(req, TRUE) /\ Named(store, req) = {}
                   /\ RejectDocument(req))
               => (resp'.code = 404 /\ store' = store)
      ]_vars

\* C7 witness: a review answered not-found while every stored submission is
\* pending and has a location.
C7_Witness ==
    /\ resp.code = 404 /\ resp.op \in {"accept", "reject"}
    /\ Len(store) = 2
    /\ \A i \in 1..Len(store) : store[i].status = "pending" /\ store[i].url # NoUrl

\* C8: the status of a submission changes only from pending to accepted or
\* from pending to rejected.
C8_OnlyFromPending ==
    [][\A i \in 1..Len(store) :
          store'[i].status # store[i].status
          => (store[i].status = "pending" /\ store'[i].status \in {"accepted", "rejected"})
      ]_vars

\* C8, what is reached: a reject found an accepted submission and rejected it.
C8_AcceptedThenRejected ==
    /\ resp.op = "reject" /\ resp.code = 200 /\ resp.found.status = "accepted"
    /\ \E i \in 1..Len(store) : store[i].status = "rejected"

\* C9: a reject with a description on a pending submission leaves it rejected
\* with that description, and a further reject of the same submission with
\* another description succeeds and leaves it rejected with the new one.
C9_RejectOverwrites ==
    [][resp'.op = "reject" =>
          \A req \in RejectReqs :
             (/\ ReviewReaches(req, TRUE)
              /\ \E i \in Named(store, req) : store[i].status \in {"pending", "rejected"}
              /\ RejectDocument(req))
             => /\ resp'.code = 200
                /\ \E i \in Named(store, req) :
                      /\ store'[i].status = "rejected"
                      /\ store'[i].description = req.description
      ]_vars

\* C9 witness: a reject found a submission already rejected with d1 and left it
\* rejected with d2.
C9_Witness ==
    /\ resp.op = "reject" /\ resp.code = 200
    /\ resp.found = [status |-> "rejected", description |-> "d1"]
    /\ Len(store) = 1
    /\ store[1].status = "rejected" /\ store[1].description = "d2"

(* ------------------------------------------------------------------ *)
(* Properties of submission                                            *)
(* ------------------------------------------------------------------ *)
\* C5: a submission just created by submit-document has status pending and
\* carries no description, whatever the request body held.
C5_FreshPendingNoDescription ==
    (resp.op = "submit" /\ resp.code = 201)
    => /\ store[Len(store)].status = "pending"
       /\ store[Len(store)].description = NoDesc

\* C5, what is reached: a curricular submission was created and is stored
\* pending with the description of the request body.
C5_FreshWithDescription ==
    /\ resp.op = "submit" /\ resp.code = 201
    /\ store[Len(store)].model \in {"Activities", "Extracurriculam"}
    /\ store[Len(store)].status = "pending"
    /\ store[Len(store)].description = "sd"

\* C16: a submission that fails, by validation or because the save fails,
\* adds no record and leaves no attachment file of that request on disk.
C16_FailedSubmitLeavesNothing ==
    [][(resp'.op = "submit" /\ resp'.code # 201)
       => (store' = store /\ uploads' = uploads)]_vars

\* C16, what is reached: a submission with a PDF was refused with 400, no
\* record exists, and the uploads directory holds a file.
C16_OrphanedAttachment ==
    /\ resp.op = "submit" /\ resp.code = 400
    /\ store = <<>>
    /\ uploads = {1}

(* ------------------------------------------------------------------ *)
(* Properties of the streams                                           *)
(* ------------------------------------------------------------------ *)
\* the names of the events written so far that carry a snapshot
SnapshotsWritten == {k \in 1..Len(sess.out) : sess.out[k].name \in SnapshotEvents}

\* C1: on the admin stream no snapshot is pushed to a requester without a valid
\* admin credential.
C1_AdminSnapshotNeedsAdmin ==
    (sess.kind = "admin" /\ authenticateAdmin(sess.cred) # 0) => SnapshotsWritten = {}

\* C1, what is reached: the admin stream is live for a request that carried no
\* token, and a pending-documents event was written to it.
C1_SnapshotWithoutToken ==
    /\ sess.kind = "admin" /\ sess.cred = CredH(NoTok) /\ sess.pc = "live"
    /\ sess.out # <<>> /\ sess.out[1].name = "pending-documents"

\* C2: an academics stream opened with a valid token of one student for the
\* sid of another is refused as forbidden: nothing is written and no timer set.
C2_OtherStudentForbidden ==
    (/\ sess.kind = "academics"
     /\ Decode(TokenOf(sess.cred)).ok
     /\ Decode(TokenOf(sess.cred)).sid \in Students
     /\ sess.sid # Decode(TokenOf(sess.cred)).sid)
    => /\ sess.pc = "refused" /\ sess.code = 403
       /\ sess.out = <<>>
       /\ ~sess.pollInterval /\ ~sess.heartbeatInterval

\* C2 witness: student A's token asked for student B's academics and got 403.
C2_Witness ==
    /\ sess.kind = "academics" /\ sess.cred = CredQ("stuA") /\ sess.sid = "B"
    /\ sess.pc = "refused" /\ sess.code = 403

\* C3: an admin snapshot holds a submission exactly when its status is pending
\* at the time of the query, whatever its variant.
C3_SnapshotIsPending ==
    [][(/\ sess'.kind = "admin"
        /\ Len(sess'.out) > Len(sess.out)
        /\ sess'.out[Len(sess'.out)].name = "pending-documents")
       => {sess'.snap[k] : k \in 1..Len(sess'.snap)}
             = {i \in 1..Len(store) : store[i].status = "pending"}]_vars

\* C3, what is reached: a pending extracurricular submission is in the store
\* since before the admin stream was opened, and the snapshots are empty.
C3_ExtracurricularLeftOut ==
    /\ Len(store) = 1 /\ store[1].model = "Extracurriculam" /\ store[1].status = "pending"
    /\ resp.op = "submit"
    /\ sess.kind = "admin" /\ Len(sess.out) = 2
    /\ sess.out[2].name = "pending-documents" /\ sess.snap = <<>>

\* C10 as claimed: every opened session has pushed exactly one snapshot when the
\* first timer-driven write is made, also when the initial query failed.
C10_OneSnapshotBeforeTimers ==
    sess.pc \in {"live", "ended"}
    => /\ Cardinality({k \in SnapshotsWritten : sess.out[k].from = "open"}) = 1
       /\ \A k \in 1..Len(sess.out) :
             sess.out[k].from # "open"
             => \E j \in SnapshotsWritten : j < k /\ sess.out[j].from = "open"

\* C10 amended: every opened session writes exactly one event before any timer
\* is set, a snapshot of its kind or an error event, and it is the first write.
C10_OneWriteBeforeTimers ==
    /\ sess.pc = "tick0"
       => sess.out = <<>> /\ ~sess.pollInterval /\ ~sess.heartbeatInterval
    /\ sess.pc \in {"live", "ended"}
       => /\ Len(sess.out) >= 1
          /\ sess.out[1].from = "open"
          /\ sess.out[1].name \in {EventName(sess.kind), "error"}
          /\ \A k \in 2..Len(sess.out) : sess.out[k].from # "open"

\* C10 witness: the initial query failed, the error event was written, and the
\* first snapshot came from the poll timer.
C10_Witness ==
    /\ sess.pc = "live" /\ Len(sess.out) = 2
    /\ sess.out[1] = Written("error", "open")
    /\ sess.out[2].from = "pollInterval" /\ sess.out[2].name \in SnapshotEvents

\* C17: once the remote end has closed the connection, both timers of the
\* session are cancelled and nothing more is written to it, also when the
\* close arrives while the initial query or a poll query is in flight.
C17_ClosedSessionIsQuiet ==
    [][(sess.remoteClosed /\ sess'.remoteClosed)
       => /\ ~sess'.pollInterval /\ ~sess'.heartbeatInterval
          /\ sess'.out = sess.out]_vars

\* C17, what is reached: the remote end closed the connection while the
\* initial query was in flight, and the session has both timers set and has
\* written the initial event, a poll snapshot and a heartbeat since.
C17_TimersOutliveClose ==
    /\ sess.remoteClosed /\ sess.pc = "live"
    /\ sess.pollInterval /\ sess.heartbeatInterval
    /\ Len(sess.out) = 3
    /\ sess.out[2].from = "pollInterval" /\ sess.out[3].from = "heartbeatInterval"

\* C18 as claimed: a poll tick whose query fails reports an error to the
\* subscriber, and the session stays open with both timers armed.
C18_PollFailureReported ==
    [][(sess.pc = "live" /\ PollResolve(FALSE))
       => /\ sess'.out = Append(sess.out, Written("error", "pollInterval"))
          /\ sess'.pc = "live" /\ sess'.pollInterval /\ sess'.heartbeatInterval]_vars

\* C18 amended: a poll tick whose query fails writes nothing to the
\* subscriber, the failure is only logged; the session stays open with both
\* timers armed and no query in flight, so the next tick fires, and a tick
\* whose query succeeds writes a snapshot.
C18_PollFailureLogged ==
    [][/\ (sess.pc = "live" /\ PollResolve(FALSE))
          => /\ sess'.out = sess.out /\ sess'.snap = sess.snap
             /\ sess'.pollError
             /\ sess'.pc = "live" /\ sess'.pollInterval /\ sess'.heartbeatInterval
             /\ ~sess'.polling
       /\ (sess.pc = "live" /\ PollResolve(TRUE))
          => /\ sess'.out = Append(sess.out, Written(EventName(sess.kind), "pollInterval"))
             /\ ~sess'.pollError
             /\ sess'.pc = "live" /\ sess'.pollInterval /\ sess'.heartbeatInterval
      ]_vars

\* C18 witness: after a poll tick whose query failed, the next tick has fired
\* on the same session, which has written nothing but its initial snapshot.
C18_Witness ==
    /\ sess.pc = "live" /\ ~sess.remoteClosed
    /\ sess.pollError /\ sess.polling
    /\ sess.pollInterval /\ sess.heartbeatInterval
    /\ Len(sess.out) = 1 /\ sess.out[1].name \in SnapshotEvents

(* ------------------------------------------------------------------ *)
(* Properties of submission seen through the streams                   *)
(* ------------------------------------------------------------------ *)
\* a skill submission with its name set, by a student the middleware lets
\* through, whose save succeeds
NamedSkill(req) ==
    /\ req.key = "skill" /\ Truthy(req.skillname)
    /\ authenticateStudent(req.cred).code = 0 /\ req.dbOk

\* the record a skill submission is stored as
IsSkillRecord(doc, req) ==
    /\ doc.model = "Skill" /\ doc.status = "pending"
    /\ doc.skillname = req.skillname
    /\ doc.sid = authenticateStudent(req.cred).sid

\* the step wrote a snapshot event of the named kind to the session
WroteSnapshot(kind) ==
    /\ sess'.kind = kind
    /\ Len(sess'.out) = Len(sess.out) + 1 \/ (sess.pc = "tick0" /\ sess'.pc = "live")
    /\ sess'.out # <<>>
    /\ sess'.out[Len(sess'.out)].name = EventName(kind)

\* the ids in the session's last snapshot
InSnap(s) == {s.snap[k] : k \in 1..Len(s.snap)}

\* C11 as claimed: a skill submission with skillname set and no attachment
\* adds exactly one pending record with that skillname.
C11_SkillWithoutAttachmentStored ==
    [][resp'.op = "submit" =>
          \A req \in StreamSubmitReqs :
             (NamedSkill(req) /\ ~req.hasFile /\ SubmitDocument(req))
             => /\ Len(store') = Len(store) + 1
                /\ IsSkillRecord(store'[Len(store')], req)]_vars

\* C11 amended: a skill submission with skillname set adds exactly one pending
\* record with that skillname when it carries a PDF and is refused with 400 and
\* no record when it does not; every snapshot of the owner's skills stream
\* queried afterwards holds exactly the owner's skill records, so its
\* totalCount is one higher.
C11_SkillWithAttachmentStored ==
    [][/\ resp'.op = "submit" =>
            \A req \in StreamSubmitReqs :
               (NamedSkill(req) /\ SubmitDocument(req))
               => IF req.hasFile
                  THEN /\ resp'.code = 201
                       /\ Len(store') = Len(store) + 1
                       /\ SubSeq(store', 1, Len(store)) = store
                       /\ IsSkillRecord(store'[Len(store')], req)
                  ELSE resp'.code = 400 /\ store' = store
       /\ WroteSnapshot("skills") =>
            /\ InSnap(sess') = FindBySid(store, "Skill", sess.sid)
            /\ Len(sess'.snap) = Cardinality(FindBySid(store, "Skill", sess.sid))
      ]_vars

\* C11 witness: student A's skill submission with a PDF was stored, and the
\* poll tick of A's skills stream pushed a snapshot that holds it.
C11_Witness ==
    /\ resp.op = "submit" /\ resp.code = 201
    /\ Len(store) = 1 /\ store[1].model = "Skill" /\ store[1].sid = "A"
    /\ store[1].skillname = "Python" /\ store[1].status = "pending"
    /\ store[1].url # NoUrl
    /\ sess.kind = "skills" /\ sess.sid = "A" /\ Len(sess.out) = 2
    /\ sess.out[2] = Written("skills-update", "pollInterval")
    /\ sess.snap = <<1>>

\* C12: once an accept has succeeded on a pending skill submission, the
\* pending query no longer returns it and counts one skill and one document
\* less; every admin snapshot is the result of that query on the store as it
\* is when the snapshot's query runs, so no later snapshot holds it.
C12_AcceptedLeavesSnapshots ==
    [][/\ (resp'.op = "accept" /\ resp'.code = 200 /\ resp'.found.status = "pending") =>
            \A req \in ReviewedAccepts :
               (AcceptDocument(req) /\ resolveModel(LowerTrim(req.documentype)) = "Skill")
               => LET before == fetchPendingDocuments(store)
                      after == fetchPendingDocuments(store')
                  IN  /\ ReviewTarget(store, req) \in {d.id : d \in {before.documents[k] : k \in 1..Len(before.documents)}}
                      /\ \A k \in 1..Len(after.documents) :
                            after.documents[k].id # ReviewTarget(store, req)
                      /\ after.breakdown.skills = before.breakdown.skills - 1
                      /\ after.totalCount = before.totalCount - 1
       /\ WroteSnapshot("admin") =>
            /\ sess'.snap = DocIds(fetchPendingDocuments(store))
            /\ \A i \in InSnap(sess') : store[i].status = "pending"
      ]_vars

\* C12 witness: of two pending skill submissions one was accepted, and the
\* poll tick after it pushed a snapshot that holds only the other.
C12_Witness ==
    /\ Len(store) = 2 /\ \A i \in 1..2 : store[i].model = "Skill"
    /\ store[1].status = "accepted" /\ store[2].status = "pending"
    /\ resp.op = "accept" /\ resp.code = 200 /\ resp.found.status = "pending"
    /\ sess.kind = "admin" /\ Len(sess.out) = 3
    /\ sess.out[3] = Written("pending-documents", "pollInterval")
    /\ sess.snap = <<2>>

(* ------------------------------------------------------------------ *)
(* Properties of the stream hooks                                      *)
(* ------------------------------------------------------------------ *)
\* what a hook returns to the page
Exposed(h) ==
    [collection |-> h.collection, loading |-> h.loading, error |-> h.error,
     isConnected |-> h.isConnected]

\* C13: a malformed payload leaves the collection as it was, surfaces an error
\* and keeps the connection open, and the well-formed payload after it leaves
\* the hook's exposed state as if the malformed one had not arrived.
C13_MalformedLeavesNoTrace ==
    hook.eventSource = "open" =>
       \A bad \in MalformedPayloads :
          LET h1 == UpdateListener(hook, bad)
          IN  /\ h1.collection = hook.collection
              /\ h1.error # NoError
              /\ h1.eventSource = "open"
              /\ \A good \in WellFormedPayloads :
                    Exposed(UpdateListener(h1, good)) = Exposed(UpdateListener(hook, good))

\* C13, what is reached: the last event applied a well-formed payload, the
\* hook is live with its documents, and still returns the parse error.
C13_StaleParseError ==
    /\ hook.kind = "academics" /\ hook.eventSource = "open"
    /\ hook.lastEvent = "update"
    /\ hook.collection = List(<<2, 1>>) /\ hook.isConnected /\ ~hook.loading
    /\ hook.error = "Failed to parse academic data"

(* ------------------------------------------------------------------ *)
(* Properties of the record store                                      *)
(* ------------------------------------------------------------------ *)
\* C14: in every reachable state the status of every submission is one of
\* pending, accepted, rejected.
C14_StatusDomain ==
    \A i \in 1..Len(store) : store[i].status \in {"pending", "accepted", "rejected"}

\* C14 witness: after submissions, one of them sent with a status of its own
\* in the body, and reviews, the store holds an accepted and a rejected one.
C14_Witness ==
    /\ Len(store) = 2
    /\ store[1].status = "accepted" /\ store[2].status = "rejected"
    /\ store[1].model = "Skill" /\ store[2].model = "Extracurriculam"
    /\ resp.op = "accept" /\ resp.code = 200

(* ------------------------------------------------------------------ *)
(* Properties of the student streams                                   *)
(* ------------------------------------------------------------------ *)
\* the collection a student stream reads
StreamModel(kind) ==
    CASE kind = "skills" -> "Skill"
      [] kind = "curricular" -> "Activities"
      [] kind = "academics" -> "GPA"

\* C15: every snapshot written on a student stream holds exactly the
\* documents of the stream's collection owned by the student of the session's
\* token, and none owned by another student.
C15_StudentSnapshotScope ==
    [][\A kind \in StreamKinds \ {"admin"} :
          WroteSnapshot(kind) =>
             LET owner == authenticateStudent(sess.cred).sid
             IN  /\ authenticateStudent(sess.cred).code = 0
                 /\ InSnap(sess') = {i \in 1..Len(store) :
                                        /\ store[i].model = StreamModel(kind)
                                        /\ store[i].sid = owner}
                 /\ \A i \in InSnap(sess') : store[i].sid = owner
      ]_vars

\* C15 witness: A and B each own a skill document, and A's skills stream has
\* pushed a snapshot that holds A's document only.
C15_Witness ==
    /\ Len(store) = 2 /\ \A i \in 1..2 : store[i].model = "Skill"
    /\ store[1].sid = "B" /\ store[2].sid = "A"
    /\ sess.kind = "skills" /\ sess.cred = CredQ("stuA") /\ sess.pc = "live"
    /\ Len(sess.out) = 2 /\ sess.out[2].name = "skills-update"
    /\ sess.snap = <<2>>

(* ------------------------------------------------------------------ *)
(* Properties of concurrent reviews                                    *)
(* ------------------------------------------------------------------ *)
\* the review fields a handler's update leaves when it is applied whole
CompleteResult(r) ==
    IF r.op = "accept" THEN [status |-> "accepted", description |-> NoDesc]
    ELSE [status |-> "rejected", description |-> r.description]

\* C19: when review requests are in the server at once, each update that is
\* applied to a stored submission leaves it with the complete result of that
\* request and answers 200, whatever the other request did before; so the
\* submission ends with the complete result of the update applied last, never
\* with accepted and a description or rejected and the other's description.
C19_LastWriteWinsWhole ==
    [][/\ \A h \in Handlers :
            (/\ reviews[h].pc = "awaiting" /\ reviews'[h].pc = "done"
             /\ ReviewTarget(store, Held(reviews[h])) # 0)
            => LET i == ReviewTarget(store, Held(reviews[h]))
               IN  /\ reviews'[h].code = 200
                   /\ Review(store'[i]) = CompleteResult(reviews[h])
                   /\ \A j \in 1..Len(store) : j # i => store'[j] = store[j]
       /\ \A i \in 1..Len(store') :
            \/ Review(store'[i]) = [status |-> "pending", description |-> NoDesc]
            \/ Review(store'[i]) = [status |-> "accepted", description |-> NoDesc]
            \/ /\ store'[i].status = "rejected"
               /\ store'[i].description \in Descriptions
      ]_vars

\* C19 witness: an accept and a reject of the same submission awaited their
\* updates at the same time, both answered 200, and the submission is
\* accepted without description.
C19_Witness ==
    /\ \A h \in Handlers : reviews[h].pc = "done" /\ reviews[h].code = 200 /\ reviews[h].raced
    /\ reviews[1].op = "reject" /\ reviews[2].op = "accept"
    /\ reviews[1].docurl = reviews[2].docurl
    /\ Len(store) = 1
    /\ Review(store[1]) = [status |-> "accepted", description |-> NoDesc]

(* ------------------------------------------------------------------ *)
(* Properties of the tag resolution                                    *)
(* ------------------------------------------------------------------ *)
\* the handler holds an administrator's request whose tag, trimmed and
\* lower-cased, resolves to none of the five submission collections
OutsideTag(r) ==
    /\ r.pc # "idle"
    /\ authenticateAdmin(r.cred) = 0
    /\ resolveModel(LowerTrim(r.documentype)) \notin SubmissionModels

\* C20: an administrator's review whose tag resolves to none of the five
\* submission collections is answered 400 before any update is issued, never
\* 500, and the step that answers it changes no stored record, academic
\* records included.
C20_UnknownTagRefused ==
    [][\A h \in Handlers :
          (OutsideTag(reviews'[h]) /\ reviews'[h] # reviews[h])
          => /\ reviews'[h].pc = "done"
             /\ reviews'[h].code = 400
             /\ store' = store
      ]_vars

\* C20 witness: a reject tagged " GPA " that names a stored academic record by
\* owner and location was answered 400, and the record is as it was stored.
C20_Witness ==
    \E h \in Handlers, i \in 1..Len(store) :
       /\ reviews[h].pc = "done" /\ reviews[h].code = 400 /\ reviews[h].op = "reject"
       /\ reviews[h].documentype = " GPA " /\ reviews[h].dbOk
       /\ store[i].model = "GPA" /\ store[i].sid = reviews[h].sid
       /\ store[i].url = normalizeDocUrl(reviews[h].docurl)
       /\ store[i].status = Missing /\ store[i].description = NoDesc

(* ------------------------------------------------------------------ *)
(* Properties of reviews built from snapshot entries                   *)
(* ------------------------------------------------------------------ *)
\* the step is the review the page posts for entry doc
PageReviews(doc) ==
    \/ AcceptDocument(ReviewFromEntry(doc, "accepted", Missing))
    \/ RejectDocument(ReviewFromEntry(doc, "rejected", "d1"))

\* C21: for every listed submission with an attachment, normalizing the
\* listed absolute url yields the stored location, and the review the page
\* posts for it is answered 200 and updates exactly that submission.
C21_ListedUrlLocates ==
    [][resp'.op \in {"accept", "reject"} =>
          \A k \in 1..Len(Listed) :
             (Listed[k].url # NoUrl /\ PageReviews(Listed[k]))
             => /\ normalizeDocUrl(Listed[k].url) = store[Listed[k].id].url
                /\ resp'.code = 200
                /\ store'[Listed[k].id].status # "pending"
      ]_vars

\* C21, what is reached: every stored submission is pending and has an
\* attachment, and the review posted for a listed one was answered not-found.
C21_ListedNotFound ==
    /\ resp.op \in {"accept", "reject"} /\ resp.code = 404
    /\ Len(store) >= 1
    /\ \A i \in 1..Len(store) : store[i].status = "pending" /\ store[i].url # NoUrl

\* C27: the review the page posts for a listed pending submission, with or
\* without attachment, is answered 200 and moves it out of pending.
C27_ListedCanBeResolved ==
    [][resp'.op \in {"accept", "reject"} =>
          \A k \in 1..Len(Listed) :
             (Listed[k].url = NoUrl /\ PageReviews(Listed[k]))
             => /\ resp'.code = 200
                /\ store'[Listed[k].id].status # "pending"
      ]_vars

\* C27, what is reached: the only stored submission is pending, listed and
\* without attachment, and the review posted for it was answered 400.
C27_ListedRefused ==
    /\ resp.op \in {"accept", "reject"} /\ resp.code = 400
    /\ Len(store) = 1 /\ store[1].status = "pending" /\ store[1].url = NoUrl
    /\ Len(Listed) = 1

(* ------------------------------------------------------------------ *)
(* Properties of who may set a status                                  *)
(* ------------------------------------------------------------------ *)
\* C26: a status changes only in an accept or reject step whose credential
\* passed authenticateAdmin; a review with a student's credential or none
\* changes nothing; and a submission is stored under the sid of its
\* credential with status pending, whatever sid and status its body names.
C26_OnlyAdminSetsStatus ==
    [][/\ (\E i \in 1..Len(store) : store'[i].status # store[i].status)
            => /\ resp'.op \in {"accept", "reject"} /\ resp'.code = 200
               /\ \E req \in AcceptReqs \cup RejectReqs :
                     /\ authenticateAdmin(req.cred) = 0
                     /\ AcceptDocument(req) \/ RejectDocument(req)
       /\ resp'.op \in {"accept", "reject"} =>
            \A req \in AcceptReqs \cup RejectReqs :
               (authenticateAdmin(req.cred) # 0 /\ (AcceptDocument(req) \/ RejectDocument(req)))
               => (store' = store /\ resp'.code \in {401, 403})
       /\ resp'.op = "submit" =>
            \A req \in SubmitReqs :
               (SubmitDocument(req) /\ resp'.code = 201)
               => /\ Len(store') = Len(store) + 1
                  /\ store'[Len(store')].sid = authenticateStudent(req.cred).sid
                  /\ store'[Len(store')].status = "pending"
      ]_vars

\* C26 witness: the store holds two submissions, both pending and owned by A,
\* and an accept carrying a student's credential was just answered 403.
C26_Witness ==
    /\ resp.op = "accept" /\ resp.code = 403
    /\ Len(store) = 2
    /\ \A i \in 1..Len(store) : store[i].sid = "A" /\ store[i].status = "pending"

(* ------------------------------------------------------------------ *)
(* Properties of the requests page                                     *)
(* ------------------------------------------------------------------ *)
\* the connections of the page that are not closed
NonClosed(p) == {i \in 1..Len(p.es) : p.es[i] # "closed"}

\* C30: the page has at most one connection that is not closed, every
\* connection the ref does not refer to is closed, and a connection is
\* created only when the ref is null or refers to a closed connection.
C30_OneLiveConnection ==
    [][/\ Cardinality(NonClosed(page')) <= 1
       /\ NonClosed(page') \subseteq {page'.ref}
       /\ Len(page'.es) > Len(page.es) => (page.ref = 0 \/ page.es[page.ref] = "closed")
      ]_vars

\* C30 witness: after two fatal errors and two timeouts the page refers to its
\* third connection, which is open, and the two before it are closed.
C30_Witness ==
    /\ page.mounted /\ Len(page.es) = 3 /\ page.ref = 3
    /\ page.es = <<"closed", "closed", "open">>
    /\ page.timers = 0 /\ page.stale = 0

\* C22: an error signal leaves the page not live with its connection closed,
\* and the page creates no connection afterwards unless it is mounted anew.
C22_ErrorClosesForGood ==
    [][/\ page'.lastEvent = "error" =>
            (~page'.isLiveConnected /\ NonClosed(page') = {})
       /\ Len(page'.es) > Len(page.es) => page'.lastEvent = "mount"
      ]_vars

\* C22, what is reached: the mounted page, never unmounted, has replaced the
\* connection an error closed by a second one created by the timeout.
C22_PageReconnected ==
    /\ page.mounted /\ page.lastEvent = "timer"
    /\ page.es = <<"closed", "connecting">> /\ page.ref = 2

(* ------------------------------------------------------------------ *)
(* Properties of unmounted and disabled stream clients                 *)
(* ------------------------------------------------------------------ *)
\* what the requests page shows
PageExposed(p) ==
    [documents |-> p.documents, totalCount |-> p.totalCount, loading |-> p.loading,
     isLiveConnected |-> p.isLiveConnected]

\* the hook's component is unmounted, or mounted with the hook disabled
HookOff(h) == h.kind # "none" /\ (~h.mounted \/ ~h.enabled)

\* the page's component was mounted and is unmounted
PageOff(p) == ~p.mounted /\ p.lastEvent # "none"

\* C23: while a hook stays unmounted or disabled (it is not mounted anew) its
\* connection is closed and no step changes what it returns; while the requests page stays unmounted
\* all its connections are closed, none is created and no step changes what
\* it shows, also when a reconnect timeout armed before the unmount fires.
C23_QuietAfterUnmount ==
    [][/\ (HookOff(hook) /\ HookOff(hook') /\ (hook.mounted \/ ~hook'.mounted))
            => (hook.eventSource # "open" /\ hook'.eventSource # "open"
                /\ Exposed(hook') = Exposed(hook))
       /\ (PageOff(page) /\ PageOff(page'))
            => (NonClosed(page) = {} /\ page'.es = page.es
                /\ PageExposed(page') = PageExposed(page))
      ]_vars

\* C23 witness: the page was unmounted with a reconnect timeout pending on a
\* connection an error had closed, the timeout has fired, and the page still
\* has that one connection; the hook, unmounted after a data event, has
\* closed its connection and kept its documents.
C23_Witness ==
    /\ ~page.mounted /\ page.lastEvent = "stale-timer"
    /\ page.es = <<"closed">> /\ page.ref = 0 /\ page.stale = 0
    /\ ~hook.mounted /\ hook.lastEvent = "unmount" /\ hook.eventSource = "closed"
    /\ hook.collection = List(<<1>>)

(* ------------------------------------------------------------------ *)
(* Properties of the hooks' loading flag and of parsed events          *)
(* ------------------------------------------------------------------ *)
\* C28: once the outcome of a hook's run is known its loading flag is false:
\* after a data event was applied, and whenever the mounted hook has no open
\* connection (disabled, no credential, or closed by an error).
C28_LoadingSettles ==
    (hook.mounted /\ (hook.lastEvent = "update" \/ hook.eventSource # "open"))
    => ~hook.loading

\* C28, what is reached: an error closed the connection before any data
\* event; the hook has no connection and no timer, and still reports loading.
C28_StuckLoading ==
    /\ hook.mounted /\ hook.enabled /\ hook.kind = "skills"
    /\ hook.lastEvent = "error" /\ hook.eventSource = "closed"
    /\ hook.loading /\ hook.collection = List(<<>>)
    /\ hook.error = "Failed to connect to real-time updates"

\* C29: the step in which a hook applies a payload that JSON.parse accepts
\* leaves the collection equal to the payload's documents, the live flag
\* true, loading false and the error none.
C29_ParsedEventConsistent ==
    [][hook'.lastEvent = "update" =>
          \A payload \in WellFormedPayloads :
             onUpdate(payload)
             => /\ hook'.collection = payload.documents
                /\ hook'.isConnected /\ ~hook'.loading
                /\ hook'.error = NoError
      ]_vars

\* C29, what is reached: a curricular hook whose last event applied the
\* documents <<1>> is live, not loading, and returns the parse error of an
\* earlier event.
C29_ErrorSurvivesUpdate ==
    /\ hook.kind = "curricular" /\ hook.mounted /\ hook.lastEvent = "update"
    /\ hook.collection = List(<<1>>) /\ hook.isConnected /\ ~hook.loading
    /\ hook.error = "Failed to parse curricular data"

StaysOpen ==
    /\ sess.pc = "live" /\ ~sess.pollError
    /\ hook.eventSource = "open"

\* the hook's collection is the store's content for the session's scope
InStep ==
    /\ sess.kind \in StreamKinds
    /\ hook.collection = List(DocIds(Snapshot(store, sess.kind, sess.sid)))

\* C24: if from some point on the session stays open and its queries succeed,
\* then (the store having stopped changing) from some point on the hook's
\* collection equals the store's content for the session's scope.
C24_EventuallyInStep == <>[]StaysOpen => <>[]InStep

\* C24, its case: the session is open, A's two skills were stored while it
\* was (a query that read the empty store is still awaited), every snapshot
\* written was received and the hook's collection lists both skills.
C24_Witness ==
    /\ StaysOpen /\ sess.kind = "skills" /\ sess.sid = "A"
    /\ FindBySid(store, "Skill", "A") = {1, 2}
    /\ \E q \in sess.queries : q.read /\ q.snap = <<>>
    /\ sess.wire = <<>> /\ hook.lastEvent = "update"
    /\ Len(hook.collection.items) = 2
    /\ InStep

====
